---- MODULE Spec2Model ----
(***************************************************************************)
(* predict_next_mersenne.py: load a file of Mersenne prime exponents, take *)
(* the differences of consecutive exponents, bind Index/Exponent/          *)
(* Difference in a frame, draw two plots, fit an ordinary least squares    *)
(* line through (index, exponent) and print the truncated prediction at    *)
(* the next index.                                                         *)
(*                                                                         *)
(* Text lines are sequences of one-character strings.  Real numbers are    *)
(* exact fractions <<n, d>> with d > 0; the rounding of IEEE double        *)
(* arithmetic is not represented.                                          *)
(***************************************************************************)
EXTENDS Integers, Sequences, FiniteSets, TLC

\* ------------------------------------------------------------------ bounds
MaxLines == 4
MaxRuns == 2
MaxFairLines == 2

\* ------------------------------------------------- the text of a file line
Whitespace == {" ", "\n", "\t"}
Digits == {"0", "1", "2", "3", "4", "5", "6", "7", "8", "9"}

DigitVal(c) ==
  CASE c = "0" -> 0 [] c = "1" -> 1 [] c = "2" -> 2 [] c = "3" -> 3
    [] c = "4" -> 4 [] c = "5" -> 5 [] c = "6" -> 6 [] c = "7" -> 7
    [] c = "8" -> 8 [] c = "9" -> 9

\* Lines as file.readlines() returns them, the newline kept.
LineAlphabet ==
  { <<"2", "\n">>,
    <<"3", "\n">>,
    <<" ", "5", " ", "\n">>,
    <<"7", "\n">>,
    <<"1", "3", "\n">>,
    <<"a", "b", "c", "\n">>,
    <<"\n">> }

RECURSIVE lstrip(_)
lstrip(s) ==
  IF s # <<>> /\ Head(s) \in Whitespace THEN lstrip(Tail(s)) ELSE s

RECURSIVE rstrip(_)
rstrip(s) ==
  IF s # <<>> /\ s[Len(s)] \in Whitespace
  THEN rstrip(SubSeq(s, 1, Len(s) - 1))
  ELSE s

\* str.strip()
strip(s) == rstrip(lstrip(s))

\* The texts int() accepts: an optional sign, then one or more digits.
IsIntLiteral(s) ==
  LET body == IF s # <<>> /\ Head(s) \in {"+", "-"} THEN Tail(s) ELSE s
  IN  /\ body # <<>>
      /\ \A k \in 1..Len(body) : body[k] \in Digits

RECURSIVE DigitsValue(_)
DigitsValue(s) ==
  IF s = <<>> THEN 0
  ELSE 10 * DigitsValue(SubSeq(s, 1, Len(s) - 1)) + DigitVal(s[Len(s)])

\* int(text) of an accepted text
IntOf(s) ==
  IF Head(s) = "-" THEN 0 - DigitsValue(Tail(s))
  ELSE IF Head(s) = "+" THEN DigitsValue(Tail(s))
  ELSE DigitsValue(s)

\* A bug: lines that are not integers are skipped instead of raising.
ParseLines_skip(lines) ==
  LET F[k \in 0..Len(lines)] ==
        IF k = 0 THEN <<>>
        ELSE IF IsIntLiteral(strip(lines[k]))
             THEN Append(F[k - 1], IntOf(strip(lines[k])))
             ELSE F[k - 1]
  IN  [ok |-> TRUE, val |-> F[Len(lines)]]

\* A bug: a value already seen is dropped.
ParseLines_dedup(lines) ==
  LET bad == \E k \in 1..Len(lines) : ~IsIntLiteral(strip(lines[k]))
      F[k \in 0..Len(lines)] ==
        IF k = 0 THEN <<>>
        ELSE LET v == IntOf(strip(lines[k]))
             IN  IF \E j \in 1..Len(F[k - 1]) : F[k - 1][j] = v
                 THEN F[k - 1]
                 ELSE Append(F[k - 1], v)
  IN  IF bad THEN [ok |-> FALSE, val |-> <<>>]
      ELSE [ok |-> TRUE, val |-> F[Len(lines)]]

\* [int(line.strip()) for line in file.readlines()]: the list in file
\* order, or the ValueError of the first line that is not an integer, in
\* which case no list exists.
ParseLines(lines) ==
  IF \E k \in 1..Len(lines) : ~IsIntLiteral(strip(lines[k]))
  THEN [ok |-> FALSE, val |-> <<>>]
  ELSE [ok |-> TRUE,
        val |-> [k \in 1..Len(lines) |-> IntOf(strip(lines[k]))]]

\* ---------------------------------------------------------------- numbers
RatOfInt(n) == <<n, 1>>

RECURSIVE Sum(_)
Sum(s) == IF s = <<>> THEN 0 ELSE Head(s) + Sum(Tail(s))

\* ------------------------------------------------------------- differences
\* A bug: the subtraction the wrong way round.
np_diff_reversed(a) ==
  IF Len(a) = 0 THEN <<>>
  ELSE [i \in 1..(Len(a) - 1) |-> a[i] - a[i + 1]]

\* np.diff(a): a[i+1] - a[i]; empty for fewer than two elements
np_diff(a) ==
  IF Len(a) = 0 THEN <<>>
  ELSE [i \in 1..(Len(a) - 1) |-> a[i + 1] - a[i]]

\* A cell of a column: <<>> is None, <<v>> is the value v.
None == <<>>
Some(v) == <<v>>

\* The Index and Exponent columns handed to pd.DataFrame
IndexColumn(exps) == [i \in 1..Len(exps) |-> i]
ExponentColumn(exps) == exps

\* A bug: the column is built without the leading placeholder.
DifferenceColumn_bare(diffs) == [i \in 1..Len(diffs) |-> Some(diffs[i])]

\* The Difference column: [None] + list(differences)
DifferenceColumn(diffs) == <<None>> \o [i \in 1..Len(diffs) |-> Some(diffs[i])]

\* pd.DataFrame raises ValueError unless all columns have one length
SameLength(exps, diffs) ==
  /\ Len(IndexColumn(exps)) = Len(ExponentColumn(exps))
  /\ Len(ExponentColumn(exps)) = Len(DifferenceColumn(diffs))

EmptyFrame == [Index |-> <<>>, Exponent |-> <<>>, Difference |-> <<>>]

\* --------------------------------------------------------------- the trend
\* X and y of the fit: the Index and Exponent columns (neither holds a
\* missing value, so dropna() removes nothing)
XOf(d) == d.Index
yOf(d) == d.Exponent

\* n/d with the sign carried by the numerator; fractions are compared
\* with RatEq
Quot(n, d) == IF d < 0 THEN <<0 - n, 0 - d>> ELSE <<n, d>>

\* A bug: the line is forced through the origin (no intercept).
LinearRegression_fit_origin(X, y) ==
  LET sxy == Sum([i \in 1..Len(X) |-> X[i] * y[i]])
      sxx == Sum([i \in 1..Len(X) |-> X[i] * X[i]])
  IN  [coef |-> Quot(sxy, sxx), intercept |-> RatOfInt(0)]

\* LinearRegression().fit(X, y): X and y are centred on their means
\* X_offset = SX/n and y_offset = Sy/n, the least squares problem is solved
\* on the centred data, coef = sum(Xc*yc) / sum(Xc*Xc) (the minimum-norm
\* solution, 0, when the centred X is all zero), and the intercept is
\* y_offset - X_offset * coef.  The centred values are carried times n:
\* nXc[i] = n*X[i] - SX, nyc[i] = n*y[i] - Sy.
LinearRegression_fit(X, y) ==
  LET n == Len(X)
      SX == Sum(X)
      Sy == Sum(y)
      sxy == Sum([i \in 1..n |-> (n * X[i] - SX) * (n * y[i] - Sy)])
      sxx == Sum([i \in 1..n |-> (n * X[i] - SX) * (n * X[i] - SX)])
  IN  IF sxx = 0
      THEN [coef |-> RatOfInt(0), intercept |-> Quot(Sy, n)]
      ELSE [coef |-> Quot(sxy, sxx),
            intercept |-> Quot(Sy * sxx - SX * sxy, n * sxx)]

NoModel == [coef |-> RatOfInt(0), intercept |-> RatOfInt(0)]

\* model.predict([[x]])[0]: coef * x + intercept
LinearRegression_predict(m, x) ==
  Quot(m.coef[1] * x * m.intercept[2] + m.intercept[1] * m.coef[2],
       m.coef[2] * m.intercept[2])

\* df['Index'].iloc[-1] + 1
next_index(d) == d.Index[Len(d.Index)] + 1

\* A bug: the value is rounded down.
IntCast_floor(q) == q[1] \div q[2]

\* int(predicted_exponent): the fractional part is discarded, towards zero
IntCast(q) ==
  IF q[1] >= 0 THEN q[1] \div q[2] ELSE 0 - ((0 - q[1]) \div q[2])

PredictionText == "Predicted next Mersenne prime exponent: "
PrintedLine(k) == [text |-> PredictionText, value |-> k]

\* ------------------------------------------------------------------ state
VARIABLES
  file,                \* mersenne_primes.txt: whether it exists, its lines
  display,             \* the plot call the backend fails, 0 when none
  run,                 \* number of the invocation of the script
  prev,                \* how the invocation before this one ended
  pc,                  \* the statement the script is at
  bound,               \* the names the script has assigned so far
  exponents,
  differences,
  df,
  model,
  predicted_exponent,
  stdout,              \* the lines printed
  err,                 \* the exception that ended the run, "none" if none
  steps                \* the steps that ran to completion, in order

vars == <<file, display, run, prev, pc, bound, exponents, differences, df,
          model, predicted_exponent, stdout, err, steps>>

env == <<file, display>>

RECURSIVE SeqsUpTo(_, _)
SeqsUpTo(S, n) ==
  IF n = 0 THEN {<<>>}
  ELSE LET shorter == SeqsUpTo(S, n - 1)
       IN  shorter \cup {Append(s, x) : s \in {t \in shorter : Len(t) = n - 1}, x \in S}

Files ==
  {[exists |-> FALSE, lines |-> <<>>]}
    \cup {[exists |-> TRUE, lines |-> l] : l \in SeqsUpTo(LineAlphabet, MaxLines)}

StepOrder ==
  <<"Load", "Difference", "Visualize1", "Visualize2", "Fit", "Predict">>

NoOutcome == [err |-> "none", stdout |-> <<>>]
Outcome == [err |-> err, stdout |-> stdout]

\* The state of a process that has just been started.
Fresh ==
  /\ pc = "load"
  /\ bound = {}
  /\ exponents = <<>>
  /\ differences = <<>>
  /\ df = EmptyFrame
  /\ model = NoModel
  /\ predicted_exponent = RatOfInt(0)
  /\ stdout = <<>>
  /\ err = "none"
  /\ steps = <<>>

Init ==
  /\ file \in Files
  /\ display \in 0..2
  /\ run = 1
  /\ prev = NoOutcome
  /\ Fresh

\* An uncaught exception ends the script.
Raise(e) ==
  /\ err' = e
  /\ pc' = "done"

Completed(step, next) ==
  /\ steps' = Append(steps, step)
  /\ pc' = next
  /\ err' = err

\* with open(...) as file: exponents = [int(line.strip()) for line in ...]
Load ==
  /\ pc = "load"
  /\ IF ~file.exists
     THEN /\ Raise("NotFoundError")
          /\ UNCHANGED <<exponents, bound, steps>>
     ELSE \E parsed \in {ParseLines(file.lines)} :
              IF ~parsed.ok
              THEN /\ Raise("ParseError")
                   /\ UNCHANGED <<exponents, bound, steps>>
              ELSE /\ exponents' = parsed.val
                   /\ bound' = bound \cup {"exponents"}
                   /\ Completed("Load", "difference")
  /\ UNCHANGED <<env, run, prev, differences, df, model, predicted_exponent,
                 stdout>>

\* differences = np.diff(exponents); df = pd.DataFrame({...})
Difference ==
  /\ pc = "difference"
  /\ differences' = np_diff(exponents)
  /\ IF SameLength(exponents, differences')
     THEN /\ df' = [Index |-> IndexColumn(exponents),
                    Exponent |-> ExponentColumn(exponents),
                    Difference |-> DifferenceColumn(differences')]
          /\ bound' = bound \cup {"differences", "df"}
          /\ Completed("Difference", "visualize1")
     ELSE /\ Raise("ValueError")
          /\ bound' = bound \cup {"differences"}
          /\ UNCHANGED <<df, steps>>
  /\ UNCHANGED <<env, run, prev, exponents, model, predicted_exponent, stdout>>

\* A bug: a failure of the plot is swallowed and the script goes on.
Visualize_swallow(k, here, step, next) ==
  /\ pc = here
  /\ Completed(step, next)
  /\ UNCHANGED <<env, run, prev, bound, exponents, differences, df, model,
                 predicted_exponent, stdout>>

\* plt.figure(); plt.plot(...); plt.title(...); ...; plt.show(): draws on
\* the display and changes nothing of the script's data; an exception of
\* the backend is not caught.
Visualize(k, here, step, next) ==
  /\ pc = here
  /\ IF display = k
     THEN /\ Raise("RenderError")
          /\ UNCHANGED steps
     ELSE Completed(step, next)
  /\ UNCHANGED <<env, run, prev, bound, exponents, differences, df, model,
                 predicted_exponent, stdout>>

Visualize1 == Visualize(1, "visualize1", "Visualize1", "visualize2")

Visualize2 == Visualize(2, "visualize2", "Visualize2", "fit")

\* model = LinearRegression(); model.fit(X, y)
Fit ==
  /\ pc = "fit"
  /\ model' = LinearRegression_fit(XOf(df), yOf(df))
  /\ bound' = bound \cup {"X", "y", "model"}
  /\ Completed("Fit", "predict")
  /\ UNCHANGED <<env, run, prev, exponents, differences, df,
                 predicted_exponent, stdout>>

\* A bug: the prediction is also made where the fit should be, from a model
\* that was never fitted.
Predict_early ==
  /\ pc \in {"fit", "predict"}
  /\ predicted_exponent' = LinearRegression_predict(model, next_index(df))
  /\ stdout' = Append(stdout, PrintedLine(IntCast(predicted_exponent')))
  /\ bound' = bound \cup {"next_index", "predicted_exponent"}
  /\ Completed("Predict", "done")
  /\ UNCHANGED <<env, run, prev, exponents, differences, df, model>>

\* predicted_exponent = model.predict(next_index)[0]; print(f'...{int(...)}')
Predict ==
  /\ pc = "predict"
  /\ predicted_exponent' = LinearRegression_predict(model, next_index(df))
  /\ stdout' = Append(stdout, PrintedLine(IntCast(predicted_exponent')))
  /\ bound' = bound \cup {"next_index", "predicted_exponent"}
  /\ Completed("Predict", "done")
  /\ UNCHANGED <<env, run, prev, exponents, differences, df, model>>

\* A bug: what the first run printed is still there in the second.
Restart_keep ==
  /\ pc = "done"
  /\ run < MaxRuns
  /\ run' = run + 1
  /\ prev' = Outcome
  /\ pc' = "load"
  /\ bound' = {}
  /\ exponents' = <<>>
  /\ differences' = <<>>
  /\ df' = EmptyFrame
  /\ model' = NoModel
  /\ predicted_exponent' = RatOfInt(0)
  /\ err' = "none"
  /\ steps' = <<>>
  /\ UNCHANGED <<env, stdout>>

\* The script is run again on the same file: a new process, in which no
\* name is bound and nothing has been printed.
Restart ==
  /\ pc = "done"
  /\ run < MaxRuns
  /\ run' = run + 1
  /\ prev' = Outcome
  /\ pc' = "load"
  /\ bound' = {}
  /\ exponents' = <<>>
  /\ differences' = <<>>
  /\ df' = EmptyFrame
  /\ model' = NoModel
  /\ predicted_exponent' = RatOfInt(0)
  /\ stdout' = <<>>
  /\ err' = "none"
  /\ steps' = <<>>
  /\ UNCHANGED env

Step == Load \/ Difference \/ Visualize1 \/ Visualize2 \/ Fit \/ Predict

Next ==
  \/ Load
  \/ Difference
  \/ Visualize1
  \/ Visualize2
  \/ Fit
  \/ Predict
  \/ Restart

Spec == Init /\ [][Next]_vars

\* Every statement of the script runs to completion once it is reached
\* (plt.show() returns: the window is closed or the backend does not
\* block).  Whether a run ends does not depend on the values in the file,
\* and behaviours are followed to their end for the shorter files.
FairInit == Init /\ Len(file.lines) <= MaxFairLines

FairSpec == FairInit /\ [][Next]_vars /\ WF_vars(Step)

TypeOK ==
  /\ pc \in {"load", "difference", "visualize1", "visualize2", "fit",
             "predict", "done"}
  /\ run \in 1..MaxRuns
  /\ err \in {"none", "NotFoundError", "ParseError", "ValueError",
              "RenderError"}
  /\ Len(stdout) <= 1

\* ------------------------------------------------------ what is claimed
\* The input as the claims speak of it, read off the file itself.
N == Len(file.lines)

FileValid ==
  /\ file.exists
  /\ \A k \in 1..N : IsIntLiteral(strip(file.lines[k]))

FileInts == [k \in 1..N |-> IntOf(strip(file.lines[k]))]

Ascending(s) == \A i \in 1..(Len(s) - 1) : s[i] < s[i + 1]

Ran(step) == \E k \in 1..Len(steps) : steps[k] = step

IsPrefix(s, t) == Len(s) <= Len(t) /\ s = SubSeq(t, 1, Len(s))

Printed == Len(stdout) = 1

\* C1: for a file of exactly one valid integer line no prediction line is
\* printed, and a run that gets as far as the fit ends in an
\* InsufficientDataError raised there.
C1_SinglePointRaises ==
  (FileValid /\ N = 1) =>
     /\ stdout = <<>>
     /\ (pc = "done" /\ Ran("Visualize2")) => err = "InsufficientDataError"

\* C2: when the file is missing, or some line at any position is not an
\* integer once stripped, the run ends in NotFoundError or ParseError with
\* no step completed, no name bound (no partial series) and nothing printed.
C2_LoaderFailureFatal ==
  (~file.exists \/ \E k \in 1..N : ~IsIntLiteral(strip(file.lines[k]))) =>
     /\ pc \in {"load", "done"}
     /\ steps = <<>>
     /\ bound = {}
     /\ exponents = <<>>
     /\ stdout = <<>>
     /\ pc = "done" =>
          err = (IF file.exists THEN "ParseError" ELSE "NotFoundError")

C2_Witness ==
  /\ pc = "done"
  /\ err = "ParseError"
  /\ N >= 3
  /\ IsIntLiteral(strip(file.lines[1]))
  /\ IsIntLiteral(strip(file.lines[2]))
  /\ ~IsIntLiteral(strip(file.lines[3]))

\* C3: for an ascending duplicate-free series of N >= 2 integers the
\* Difference column is the placeholder followed by exactly N-1 values, the
\* one at position i+1 being series[i+1] - series[i], none negative.
C3_DifferenceColumn ==
  (FileValid /\ N >= 2 /\ Ascending(FileInts) /\ "df" \in bound) =>
     /\ Len(df.Difference) = N
     /\ df.Difference[1] = None
     /\ \A i \in 1..(N - 1) :
          /\ df.Difference[i + 1] = Some(FileInts[i + 1] - FileInts[i])
          /\ df.Difference[i + 1][1] >= 0

C3_Witness ==
  /\ FileValid
  /\ N >= 3
  /\ Ascending(FileInts)
  /\ "df" \in bound
  /\ df.Difference[3] = Some(FileInts[3] - FileInts[2])

Abs(n) == IF n < 0 THEN 0 - n ELSE n

RECURSIVE GCD(_, _)
GCD(a, b) == IF b = 0 THEN a ELSE GCD(b, a % b)

\* Exact arithmetic on fractions, in lowest terms.
Rat(n, d) ==
  LET g == GCD(Abs(n), Abs(d))
      s == IF d < 0 THEN 0 - 1 ELSE 1
  IN  <<(s * n) \div g, (s * d) \div g>>

RatAdd(p, q) == Rat(p[1] * q[2] + q[1] * p[2], p[2] * q[2])
RatSub(p, q) == Rat(p[1] * q[2] - q[1] * p[2], p[2] * q[2])
RatMul(p, q) == Rat(p[1] * q[1], p[2] * q[2])
RatEq(p, q) == p[1] * q[2] = q[1] * p[2]

\* The solution of the normal equations of the pairs (i, y[i]), at index x.
NormalEquationsAt(y, x) ==
  LET n == Len(y)
      Si == Sum([i \in 1..n |-> i])
      Sy == Sum(y)
      Siy == Sum([i \in 1..n |-> i * y[i]])
      Sii == Sum([i \in 1..n |-> i * i])
      slope == Rat(n * Siy - Si * Sy, n * Sii - Si * Si)
      intercept == RatSub(Rat(Sy, n), RatMul(slope, Rat(Si, n)))
  IN  RatAdd(RatMul(slope, RatOfInt(x)), intercept)

\* C4: for N >= 2 the real-valued prediction is the ordinary least squares
\* line of the pairs (i, y[i]) evaluated at N+1, as the normal equations
\* give it; for the exponents 2, 3, 5, 7 the value at index 5 is 17/2.
C4_NormalEquations ==
  (FileValid /\ N >= 2 /\ "predicted_exponent" \in bound) =>
     /\ RatEq(predicted_exponent, NormalEquationsAt(FileInts, N + 1))
     /\ FileInts = <<2, 3, 5, 7>> => RatEq(predicted_exponent, <<17, 2>>)

C4_Witness ==
  /\ FileValid
  /\ FileInts = <<2, 3, 5, 7>>
  /\ "predicted_exponent" \in bound
  /\ RatEq(predicted_exponent, <<17, 2>>)

\* k is the greatest integer not above q
IsFloorOf(k, q) == k * q[2] <= q[1] /\ q[1] < (k + 1) * q[2]

\* k is q with its fractional part discarded, towards zero
IsTruncationOf(k, q) ==
  IF q[1] >= 0 THEN IsFloorOf(k, q)
  ELSE (k - 1) * q[2] < q[1] /\ q[1] <= k * q[2]

\* C5 as claimed: for every series of N >= 2 integers, ascending or not,
\* the integer printed is the floor of the real-valued prediction.
C5_PrintedIsFloor ==
  (FileValid /\ N >= 2 /\ Printed) =>
     IsFloorOf(stdout[1].value, predicted_exponent)

\* C5 as amended: for every series of N >= 2 integers, ascending or not,
\* the integer printed is the real-valued prediction truncated towards
\* zero: its floor when the prediction is not negative, its ceiling when it
\* is negative; a prediction of fractional part 1/2 or more is not rounded
\* up to the nearest integer.
C5_PrintedIsTruncation ==
  (FileValid /\ N >= 2 /\ Printed) =>
     /\ stdout[1].text = PredictionText
     /\ IsTruncationOf(stdout[1].value, predicted_exponent)
     /\ predicted_exponent[1] >= 0 =>
          IsFloorOf(stdout[1].value, predicted_exponent)

C5_Witness ==
  /\ FileValid
  /\ N >= 2
  /\ Printed
  /\ predicted_exponent[1] < 0
  /\ predicted_exponent[1] % predicted_exponent[2] # 0
  /\ IsTruncationOf(stdout[1].value, predicted_exponent)

C7_PlottingDecoupled ==
  (FileValid /\ N >= 2 /\ display # 0 /\ pc = "done") =>
     /\ Ran("Fit")
     /\ Ran("Predict")
     /\ Printed

\* C7 as amended: plotting is not decoupled from prediction: when a plot
\* call fails the run ends in RenderError, neither the fit nor the
\* prediction runs and no prediction line is printed; when both plot calls
\* succeed, the fit and the prediction run and the line is printed for any
\* valid series of N >= 2.
C7_RenderFailureFatal ==
  (FileValid /\ N >= 2 /\ pc = "done") =>
     IF display # 0
     THEN /\ err = "RenderError"
          /\ ~Ran("Fit")
          /\ ~Ran("Predict")
          /\ stdout = <<>>
     ELSE /\ err = "none"
          /\ Ran("Fit")
          /\ Ran("Predict")
          /\ Printed

C7_Witness ==
  /\ FileValid
  /\ N >= 2
  /\ display = 2
  /\ pc = "done"
  /\ err = "RenderError"
  /\ steps = <<"Load", "Difference", "Visualize1">>

C8_Order ==
  /\ IsPrefix(steps, StepOrder)
  /\ Len(stdout) <= 1
  /\ Printed => (Ran("Fit") /\ Ran("Predict"))
  /\ pc = "done" => (Printed \/ err # "none")
  /\ (Printed /\ err # "none") => FALSE

C8_NoRetry ==
  \/ steps' = steps
  \/ steps' = <<>> /\ run' = run + 1
  \/ Len(steps') = Len(steps) + 1 /\ err = "none" /\ pc # "done"

\* C8: the steps of a run are Load, Difference, Visualize(exponents),
\* Visualize(differences), Fit, Predict in this order, each at most once
\* and only after those before it have completed, none retried; the
\* prediction line is printed at most once and only after the fit; and
\* every run comes to an end, with the line printed or with an error.
C8_StraightLine ==
  /\ []C8_Order
  /\ [][C8_NoRetry]_vars
  /\ (pc = "load") ~> (pc = "done")

C8_Witness ==
  /\ pc = "done"
  /\ steps = StepOrder
  /\ Printed
  /\ err = "none"

\* C9 as claimed: the series is kept in file order, unsorted and with its
\* duplicates, and for N >= 2 valid integers that are not ascending or
\* hold duplicates the run never ends in an error: the differences are
\* taken, the fit is made and the prediction line is printed.
C9_UnsortedNeverFails ==
  (FileValid /\ N >= 2 /\ ~Ascending(FileInts)) =>
     /\ "exponents" \in bound => exponents = FileInts
     /\ pc = "done" => (err = "none" /\ Ran("Fit") /\ Printed)

\* C9 as amended: the series is kept in file order, unsorted and with its
\* duplicates (line k is index k), and N >= 2 valid integers that are not
\* ascending or hold duplicates are never rejected for it: the differences,
\* zero or negative ones too, are series[i+1] - series[i], the only error a
\* run can end in is the RenderError of a failed plot call, and when no
\* plot call fails the fit is made and the prediction line is printed.
C9_UnsortedNotRejected ==
  (FileValid /\ N >= 2 /\ ~Ascending(FileInts)) =>
     /\ "exponents" \in bound => exponents = FileInts
     /\ "df" \in bound =>
          /\ df.Exponent = FileInts
          /\ \A k \in 1..N : df.Index[k] = k
          /\ \A i \in 1..(N - 1) :
               df.Difference[i + 1] = Some(FileInts[i + 1] - FileInts[i])
     /\ err \in {"none", "RenderError"}
     /\ err = "RenderError" => display # 0
     /\ (pc = "done" /\ display = 0) =>
          (err = "none" /\ Ran("Fit") /\ Printed)

C9_Witness ==
  /\ FileValid
  /\ N >= 3
  /\ \E i \in 1..(N - 1) : FileInts[i] = FileInts[i + 1]
  /\ \E i \in 1..(N - 1) : FileInts[i] > FileInts[i + 1]
  /\ pc = "done"
  /\ Printed
  /\ exponents = FileInts

\* C10: once N integers are loaded and the frame statement has run, either
\* Index, Exponent and Difference all have length N (Index is 1..N,
\* Difference the placeholder and N-1 values) or the run has ended in an
\* error with no plot and no prediction; the error is the case N = 0
\* exactly, one placeholder against no index and no exponent.
C10_ColumnsAligned ==
  (FileValid /\ Ran("Load") /\ pc # "difference") =>
     IF N = 0
     THEN /\ pc = "done"
          /\ err = "ValueError"
          /\ "df" \notin bound
          /\ steps = <<"Load">>
          /\ stdout = <<>>
          /\ Len(exponents) = 0
          /\ Len(differences) = 0
     ELSE /\ err # "ValueError"
          /\ "df" \in bound
          /\ Len(df.Index) = N
          /\ Len(df.Exponent) = N
          /\ Len(df.Difference) = N
          /\ \A k \in 1..N : df.Index[k] = k
          /\ df.Difference[1] = None
          /\ \A k \in 2..N : Len(df.Difference[k]) = 1

C10_Witness ==
  /\ FileValid
  /\ N = 0
  /\ pc = "done"
  /\ err = "ValueError"
  /\ Len(DifferenceColumn(differences)) = 1
  /\ Len(IndexColumn(exponents)) = 0

====
